---- MODULE Spec2Model ----
(***************************************************************************)
(* The tool dispatcher of the arXiv LaTeX MCP server (src/server/main.py): *)
(* handle_call_tool, _handle_search and _handle_fetch, with the Atom feed  *)
(* extraction and the result formatting of _handle_search computed on      *)
(* strings.  The HTTP endpoint, the XML parser and process_latex_source    *)
(* are the environment: their results are chosen nondeterministically.     *)
(***************************************************************************)
EXTENDS Integers, Sequences, FiniteSets, TLC

VARIABLES
    pc,       \* "idle", "dispatching", or "awaiting_get" (suspended on the GET)
    req,      \* the call being handled, or the last one handled
    sent,     \* the external operations this call has started, in order
    io,       \* what the external operation of this call gave back
    results,  \* the list `results` of _handle_search when the call ended
    outcome,  \* what the call gave the host: a rejection or content blocks
    calls,    \* calls delivered so far
    returns,  \* calls that have ended so far
    prev      \* the call before this one: its request, io and outcome

vars == <<pc, req, sent, io, results, outcome, calls, returns, prev>>

(* ------------------------------ bounds --------------------------------- *)

\* Tool calls delivered in one behaviour.
MaxCalls == 2

\* Entries of one feed.
MaxEntries == 2

(* ------------------------- strings and values -------------------------- *)

Min(S) == CHOOSE x \in S : \A y \in S : x <= y

Max(S) == CHOOSE x \in S : \A y \in S : x >= y

\* The character of s at position i (1-based).
Char(s, i) == SubSeq(s, i, i)

\* n copies of the character c.
RECURSIVE Rep(_, _)
Rep(c, n) ==
    IF n = 0 THEN ""
    ELSE IF n % 2 = 1 THEN c \o Rep(c, n - 1)
    ELSE LET h == Rep(c, n \div 2) IN h \o h

\* A Python value that is a str, and the value None.
Str(s) == [t |-> "str", s |-> s]

PyNone == [t |-> "none"]

\* str(v), as the f-strings and str.format render a value.
PyFormat(v) == IF v.t = "str" THEN v.s ELSE "None"

\* The characters str.strip() removes.
Whitespace == {" ", "\n", "\t", "\r", "\f"}

\* The first position from i on, and the last position up to i, that holds
\* no white space (Len(s) + 1 and 0 when there is none).
RECURSIVE FirstKept(_, _)
FirstKept(s, i) ==
    IF i > Len(s) \/ Char(s, i) \notin Whitespace THEN i ELSE FirstKept(s, i + 1)

RECURSIVE LastKept(_, _)
LastKept(s, i) ==
    IF i < 1 \/ Char(s, i) \notin Whitespace THEN i ELSE LastKept(s, i - 1)

\* s.strip()
Strip(s) == SubSeq(s, FirstKept(s, 1), LastKept(s, Len(s)))

\* A variant of LastSegment that keeps all that follows "/abs/".
AfterAbs(s) ==
    LET at == {i \in 1..(Len(s) - 4) : SubSeq(s, i, i + 4) = "/abs/"}
    IN  IF at = {} THEN s ELSE SubSeq(s, Min(at) + 5, Len(s))

\* s.split("/")[-1]
LastSegment(s) ==
    LET slashes == {i \in 1..Len(s) : Char(s, i) = "/"}
    IN  IF slashes = {} THEN s ELSE SubSeq(s, Max(slashes) + 1, Len(s))

(* --------------------------- the argument bag -------------------------- *)

\* arguments: None, or a dict from keys to values.
ArgsNone == [tag |-> "none"]

ArgsDict(d) == [tag |-> "dict", d |-> d]

\* not args
Falsy(args) == args.tag = "none" \/ DOMAIN args.d = {}

\* key in args
HasKey(args, key) == args.tag = "dict" /\ key \in DOMAIN args.d

(* ------------------------------ outcomes ------------------------------- *)

NoOutcome == [kind |-> "none"]

\* The call raised: the host reports a failed call, no content is returned.
Rejected(etype, msg) == [kind |-> "rejected", etype |-> etype, error |-> msg]

\* The call returned a list of TextContent.
Content(blocks) == [kind |-> "content", blocks |-> blocks]

NoIO == [kind |-> "none"]

NoReq == [name |-> "", args |-> ArgsNone]

NoPrev == [kind |-> "none"]

(* --------------------------- program constants ------------------------- *)

\* ARXIV_API_URL, the text before and after the "{}" placeholder.
ARXIV_API_URL_HEAD == "https://export.arxiv.org/api/query?search_query="

ARXIV_API_URL_TAIL == "&max_results=10"

\* ARXIV_API_URL.format(query)
ARXIV_API_URL(query) == ARXIV_API_URL_HEAD \o PyFormat(query) \o ARXIV_API_URL_TAIL

\* The slice bound of summary[:500] and of len(summary) > 500.
SummaryLimit == 500

\* The string literal appended to a cut summary.  Line 111 holds the three
\* code points U+00E2 U+20AC U+00A6; each is written here as one ASCII
\* character, so that the length of the literal is three in whatever encoding
\* this file is read.
Ellipsis == "aE|"

NoPapers == "No papers found for the given query."

ResultsHeader == "Search Results:\n\n"

instructions ==
    "\n\nIMPORTANT INSTRUCTIONS FOR RENDERING:\n"
    \o "When discussing this paper, please use dollar sign notation ($...$) "
    \o "for inline equations and double dollar signs ($...$) for display "
    \o "equations when providing responses that include LaTeX mathematical expressions."

AbsUrl == "https://arxiv.org/abs/"

(* ------------------------------ the feed ------------------------------- *)

\* A child element of an entry: not there (find() gives None), there with no
\* text (.text is None), or there with text.
Absent == [t |-> "absent"]

Empty == [t |-> "empty"]

Text(s) == [t |-> "text", s |-> s]

\* The AttributeError of entry.find(tag).text.method() on such a child.
FieldError(f, method) ==
    IF f.t = "absent"
    THEN "'NoneType' object has no attribute 'text'"
    ELSE "'NoneType' object has no attribute '" \o method \o "'"

\* summary[:500] + (ellipsis if len(summary) > 500 else "")
Truncate(summary) ==
    SubSeq(summary, 1, IF Len(summary) < SummaryLimit THEN Len(summary) ELSE SummaryLimit)
    \o (IF Len(summary) > SummaryLimit THEN Ellipsis ELSE "")

\* One pass of the loop body over an entry: the SearchResultModel, or the
\* error raised by the first child that cannot be read.
ParseEntry(e) ==
    IF e.id.t # "text" THEN [ok |-> FALSE, error |-> FieldError(e.id, "split")]
    ELSE IF e.title.t # "text" THEN [ok |-> FALSE, error |-> FieldError(e.title, "strip")]
    ELSE IF e.summary.t # "text" THEN [ok |-> FALSE, error |-> FieldError(e.summary, "strip")]
    ELSE LET arxiv_id == LastSegment(e.id.s)
             title    == Strip(e.title.s)
             summary  == Strip(e.summary.s)
         IN  [ok |-> TRUE,
              rec |-> [id    |-> arxiv_id,
                       title |-> title,
                       text  |-> Truncate(summary),
                       url   |-> AbsUrl \o arxiv_id]]

\* A variant of ParseEntries that skips an entry it cannot read.
RECURSIVE ParseEntriesSkipping(_)
ParseEntriesSkipping(entries) ==
    IF entries = <<>> THEN [ok |-> TRUE, results |-> <<>>]
    ELSE LET first == ParseEntry(Head(entries))
             rest  == ParseEntriesSkipping(Tail(entries))
         IN  IF ~first.ok THEN rest
             ELSE [ok |-> TRUE, results |-> <<first.rec>> \o rest.results]

\* The loop over root.findall(entry): the results in feed order, or the first
\* error, which ends the loop and the call.
RECURSIVE ParseEntries(_)
ParseEntries(entries) ==
    IF entries = <<>> THEN [ok |-> TRUE, results |-> <<>>]
    ELSE LET first == ParseEntry(Head(entries))
         IN  IF ~first.ok THEN [ok |-> FALSE, error |-> first.error]
             ELSE LET rest == ParseEntries(Tail(entries))
                  IN  IF ~rest.ok THEN rest
                      ELSE [ok |-> TRUE, results |-> <<first.rec>> \o rest.results]

\* The four lines appended for one result.
FormatRecord(result) ==
    "ID: " \o result.id \o "\n"
    \o "Title: " \o result.title \o "\n"
    \o "Summary: " \o result.text \o "\n"
    \o "URL: " \o result.url \o "\n\n"

\* A variant of FormatRecords that puts the newest result first.
RECURSIVE FormatRecordsReversed(_)
FormatRecordsReversed(rs) ==
    IF rs = <<>> THEN ""
    ELSE FormatRecordsReversed(Tail(rs)) \o FormatRecord(Head(rs))

\* The loop over the results, in list order.
RECURSIVE FormatRecords(_)
FormatRecords(rs) ==
    IF rs = <<>> THEN ""
    ELSE FormatRecord(Head(rs)) \o FormatRecords(Tail(rs))

\* formatted_results
FormatResults(rs) == ResultsHeader \o FormatRecords(rs)

\* The list `results` once the loop is over; nothing is kept of a call that
\* raised before or inside the loop.
Results(resp) ==
    IF resp.kind = "body" /\ resp.wellformed /\ ParseEntries(resp.entries).ok
    THEN ParseEntries(resp.entries).results
    ELSE <<>>

\* _handle_search from the response of the GET on: what the call returns.
SearchAfterGet(resp) ==
    IF resp.kind = "neterr" THEN Rejected("ClientError", resp.msg)
    ELSE IF ~resp.wellformed THEN Rejected("ParseError", resp.msg)
    ELSE LET parsed == ParseEntries(resp.entries)
         IN  IF ~parsed.ok THEN Rejected("AttributeError", parsed.error)
             ELSE IF parsed.results = <<>>
             THEN Content(<<[type |-> "text", text |-> NoPapers]>>)
             ELSE Content(<<[type |-> "text", text |-> FormatResults(parsed.results)]>>)

(* ------------------------------- fetch --------------------------------- *)

\* A variant of FetchSuccess that returns the flattened text as it came.
FetchSuccessBare(arxiv_id, flattened) ==
    Content(<<[type |-> "text",
               text |-> flattened,
               metadata |-> [id     |-> arxiv_id,
                             title  |-> "arXiv:" \o PyFormat(arxiv_id),
                             url    |-> AbsUrl \o PyFormat(arxiv_id),
                             source |-> "arXiv"]]>>)

\* The return of the try block.
FetchSuccess(arxiv_id, flattened) ==
    Content(<<[type |-> "text",
               text |-> flattened \o instructions,
               metadata |-> [id     |-> arxiv_id,
                             title  |-> "arXiv:" \o PyFormat(arxiv_id),
                             url    |-> AbsUrl \o PyFormat(arxiv_id),
                             source |-> "arXiv"]]>>)

\* A variant of FetchFailure with no except block: the error leaves the call.
FetchFailureRaised(arxiv_id, msg) == Rejected("Exception", msg)

\* The return of the except block; msg is str(exc).
FetchFailure(arxiv_id, msg) ==
    Content(<<[type |-> "text",
               text |-> msg,
               metadata |-> [id    |-> arxiv_id,
                             title |-> "Error: " \o PyFormat(arxiv_id),
                             url   |-> AbsUrl \o PyFormat(arxiv_id)]]>>)

\* _handle_fetch from the return of process_latex_source on.
FetchAfterCall(arxiv_id, res) ==
    IF res.kind = "text" THEN FetchSuccess(arxiv_id, res.text)
    ELSE FetchFailure(arxiv_id, res.msg)

(* ------------------------------ inputs --------------------------------- *)

\* Tool names a host may send: the two tools, the third handler the tests
\* import, and a wrong capitalisation.
ToolNames == {"search", "fetch", "get_paper_prompt", "Search"}

QueryValues == {Str(""), Str("quantum"), PyNone}

IdValues == {Str("2403.12345v2"), PyNone}

EmptyDict == [k \in {} |-> PyNone]

ArgChoices ==
    {ArgsNone, ArgsDict(EmptyDict)}
    \cup {ArgsDict([query |-> q]) : q \in QueryValues}
    \cup {ArgsDict([id |-> i]) : i \in IdValues}
    \cup {ArgsDict([query |-> Str("quantum"), id |-> Str("2403.12345v2")])}

\* What process_latex_source does: returns the flattened text, or raises.
CollabResults ==
    {[kind |-> "text", text |-> "\\documentclass{article}"],
     [kind |-> "text", text |-> ""],
     [kind |-> "raise", msg |-> "HTTP Error 404: Not Found"]}

\* Feeds of at most MaxEntries entries drawn from E.
Feeds(E) == UNION {[1..k -> E] : k \in 0..MaxEntries}

\* What the GET and resp.text() do: raise, or return a body that is not XML,
\* or return a feed.
Responses(E) ==
    {[kind |-> "neterr", msg |-> "Cannot connect to host export.arxiv.org:443"],
     [kind |-> "body", wellformed |-> FALSE, msg |-> "syntax error: line 1, column 0",
      entries |-> <<>>]}
    \cup {[kind |-> "body", wellformed |-> TRUE, msg |-> "", entries |-> f] : f \in Feeds(E)}

GoodEntry ==
    [id |-> Text("http://arxiv.org/abs/2403.12345v2"),
     title |-> Text("  Quantum  Walks\n"),
     summary |-> Text("\n We study walks. ")]

\* Entries of the dispatcher's specification: a complete one, and one that
\* lacks a child.
SmallEntries == {GoodEntry, [GoodEntry EXCEPT !.title = Absent]}

(* ------------------------------ actions -------------------------------- *)

Init ==
    /\ pc = "idle"
    /\ req = NoReq
    /\ sent = <<>>
    /\ io = NoIO
    /\ results = <<>>
    /\ outcome = NoOutcome
    /\ calls = 0
    /\ returns = 0
    /\ prev = NoPrev

\* The host delivers one call to the registered call_tool handler; the call
\* before it, if any, is over.
Receive(name, args) ==
    /\ pc = "idle"
    /\ calls < MaxCalls
    /\ pc' = "dispatching"
    /\ req' = [name |-> name, args |-> args]
    /\ sent' = <<>>
    /\ io' = NoIO
    /\ results' = <<>>
    /\ outcome' = NoOutcome
    /\ calls' = calls + 1
    /\ returns' = returns
    /\ prev' = IF calls = 0 THEN NoPrev
               ELSE [kind |-> "call", req |-> req, io |-> io, outcome |-> outcome]

\* A variant of Route that also takes "Search" for the search tool.
RouteAnyCase(name) ==
    IF name \in {"search", "Search"} THEN "search"
    ELSE IF name = "fetch" THEN "fetch"
    ELSE "unknown"

\* The branch of handle_call_tool a name takes.
Route(name) ==
    IF name = "search" THEN "search"
    ELSE IF name = "fetch" THEN "fetch"
    ELSE "unknown"

\* A variant of MissingArg that also refuses a value that is not a non-empty
\* string.
MissingArgStrict(args, key) ==
    \/ Falsy(args)
    \/ ~HasKey(args, key)
    \/ args.d[key].t # "str"
    \/ args.d[key].s = ""

\* if not args or key not in args
MissingArg(args, key) == Falsy(args) \/ ~HasKey(args, key)

\* A variant of MissingArgument that answers in band, as the except block of
\* _handle_fetch does.
MissingArgumentInBand(key) ==
    Content(<<[type |-> "text", text |-> "Missing required argument: " \o key]>>)

\* raise ValueError("Missing required argument: ...")
MissingArgument(key) == Rejected("ValueError", "Missing required argument: " \o key)

\* The else branch of handle_call_tool.
UnknownTool ==
    /\ pc = "dispatching"
    /\ Route(req.name) = "unknown"
    /\ outcome' = Rejected("ValueError", "Unknown tool: " \o req.name)
    /\ pc' = "idle"
    /\ returns' = returns + 1
    /\ UNCHANGED <<req, sent, io, results, calls, prev>>

\* _handle_search up to its first suspension: the check of the arguments and
\* the GET.
handle_search ==
    /\ pc = "dispatching"
    /\ Route(req.name) = "search"
    /\ IF MissingArg(req.args, "query")
       THEN /\ outcome' = MissingArgument("query")
            /\ pc' = "idle"
            /\ sent' = sent
            /\ returns' = returns + 1
       ELSE /\ sent' = Append(sent, [op |-> "GET", url |-> ARXIV_API_URL(req.args.d.query)])
            /\ pc' = "awaiting_get"
            /\ outcome' = outcome
            /\ returns' = returns
    /\ UNCHANGED <<req, io, results, calls, prev>>

\* A variant of AfterGet that sends the GET again when it failed.
AfterGetRetrying(resp) ==
    IF resp.kind = "neterr" /\ Len(sent) < 2
    THEN [pc |-> "awaiting_get", sent |-> Append(sent, sent[Len(sent)]), outcome |-> NoOutcome]
    ELSE [pc |-> "idle", sent |-> sent, outcome |-> SearchAfterGet(resp)]

\* What _handle_search does once the GET is over: nothing more is sent, and
\* the call ends with the parsed and formatted response or with its error.
AfterGet(resp) == [pc |-> "idle", sent |-> sent, outcome |-> SearchAfterGet(resp)]

\* The GET completes (or raises) and _handle_search runs to its end.
handle_search_resume(resp) ==
    /\ pc = "awaiting_get"
    /\ io' = resp
    /\ pc' = AfterGet(resp).pc
    /\ sent' = AfterGet(resp).sent
    /\ outcome' = AfterGet(resp).outcome
    /\ results' = IF AfterGet(resp).pc = "idle" THEN Results(resp) ELSE results
    /\ returns' = IF AfterGet(resp).pc = "idle" THEN returns + 1 ELSE returns
    /\ UNCHANGED <<req, calls, prev>>

\* _handle_fetch, which does not suspend: the check of the arguments, the one
\* call of process_latex_source (its result is res) and the return.
handle_fetch(res) ==
    /\ pc = "dispatching"
    /\ Route(req.name) = "fetch"
    /\ IF MissingArg(req.args, "id")
       THEN /\ outcome' = MissingArgument("id")
            /\ sent' = sent
            /\ io' = io
       ELSE /\ sent' = Append(sent, [op |-> "process_latex_source", arxiv_id |-> req.args.d.id])
            /\ io' = res
            /\ outcome' = FetchAfterCall(req.args.d.id, res)
    /\ pc' = "idle"
    /\ returns' = returns + 1
    /\ UNCHANGED <<req, results, calls, prev>>

Next ==
    \/ \E name \in ToolNames, args \in ArgChoices : Receive(name, args)
    \/ UnknownTool
    \/ handle_search
    \/ \E resp \in Responses(SmallEntries) : handle_search_resume(resp)
    \/ \E res \in CollabResults : handle_fetch(res)

Spec == Init /\ [][Next]_vars

\* The event loop runs a delivered call without delay, and the GET it awaits
\* ends: with a response, or with the error of the connection or of the
\* session's timeout.
Fairness ==
    /\ WF_vars(UnknownTool)
    /\ WF_vars(handle_search)
    /\ WF_vars(\E resp \in Responses(SmallEntries) : handle_search_resume(resp))
    /\ WF_vars(\E res \in CollabResults : handle_fetch(res))

LiveSpec == Spec /\ Fairness

(* ------------------- the search pipeline on strings -------------------- *)

\* Entries with the identifiers, titles and summaries the extraction has to
\* cope with: new and old identifier schemes and a bare identifier; padded
\* and multi-line titles; summaries below, at and above the limit.
RichEntries ==
    {[id |-> Text(i), title |-> Text(t), summary |-> Text(a)] :
        i \in {"http://arxiv.org/abs/2403.12345v2",
               "http://arxiv.org/abs/hep-th/9901001v1",
               "2403.00001"},
        t \in {"  Quantum Walks\n", "Notes on\nID: numbers"},
        a \in {"\n We study walks. ",
               Rep("a", SummaryLimit),
               " " \o Rep("b", SummaryLimit + 1) \o "\n"}}

\* Entries that lack a child, or hold one with no text.
BrokenEntries ==
    {[GoodEntry EXCEPT !.id = Absent],
     [GoodEntry EXCEPT !.title = Absent],
     [GoodEntry EXCEPT !.summary = Absent],
     [GoodEntry EXCEPT !.summary = Empty]}

FeedEntries == RichEntries \cup BrokenEntries

\* One search call is delivered.
FeedReceive ==
    /\ calls = 0
    /\ Receive("search", ArgsDict([query |-> Str("quantum")]))

FeedNext ==
    \/ FeedReceive
    \/ handle_search
    \/ \E resp \in Responses(FeedEntries) : handle_search_resume(resp)

\* One search call over every answer of the endpoint with entries of
\* FeedEntries.
FeedSpec == Init /\ [][FeedNext]_vars

(* ------------------------------ claims --------------------------------- *)

StartsWith(s, p) == Len(p) <= Len(s) /\ SubSeq(s, 1, Len(p)) = p

EndsWith(s, p) == Len(p) <= Len(s) /\ SubSeq(s, Len(s) - Len(p) + 1, Len(s)) = p

\* A call has ended and its outcome is the last thing handed to the host.
Ended == pc = "idle" /\ calls > 0

\* The arguments of the call are a mapping that holds the key.
Holds(key) == req.args.tag = "dict" /\ key \in DOMAIN req.args.d

\* C1: a fetch call that holds an id and whose call of process_latex_source
\* raised is not rejected: it returns one block whose text is the message of
\* the error, whose metadata title starts with "Error: ", whose metadata id and
\* url are those of the identifier, and whose metadata has no source key.
C1_FetchFailureInBand ==
    (Ended /\ req.name = "fetch" /\ Holds("id") /\ io.kind = "raise") =>
        /\ outcome.kind = "content"
        /\ Len(outcome.blocks) = 1
        /\ outcome.blocks[1].text = io.msg
        /\ StartsWith(outcome.blocks[1].metadata.title, "Error: ")
        /\ outcome.blocks[1].metadata.id = req.args.d.id
        /\ outcome.blocks[1].metadata.url
             = "https://arxiv.org/abs/" \o PyFormat(req.args.d.id)
        /\ "source" \notin DOMAIN outcome.blocks[1].metadata

C1_Witness ==
    /\ Ended /\ req.name = "fetch" /\ Holds("id") /\ io.kind = "raise"
    /\ outcome.kind = "content"
    /\ outcome.blocks[1].text = "HTTP Error 404: Not Found"

\* C2: a fetch call that holds an id and whose call of process_latex_source
\* returned the text T returns one block whose text is T followed by the
\* rendering instructions and whose metadata is exactly id, title "arXiv:{id}",
\* url "https://arxiv.org/abs/{id}" and source "arXiv".
C2_FetchSuccess ==
    (Ended /\ req.name = "fetch" /\ Holds("id") /\ io.kind = "text") =>
        /\ outcome.kind = "content"
        /\ Len(outcome.blocks) = 1
        /\ outcome.blocks[1].text = io.text \o instructions
        /\ EndsWith(outcome.blocks[1].text, "LaTeX mathematical expressions.")
        /\ outcome.blocks[1].metadata =
             [id     |-> req.args.d.id,
              title  |-> "arXiv:" \o PyFormat(req.args.d.id),
              url    |-> "https://arxiv.org/abs/" \o PyFormat(req.args.d.id),
              source |-> "arXiv"]

C2_Witness ==
    /\ Ended /\ req.name = "fetch" /\ Holds("id") /\ io.kind = "text"
    /\ io.text = "\\documentclass{article}"
    /\ outcome.kind = "content"
    /\ outcome.blocks[1].metadata.title = "arXiv:2403.12345v2"

\* The key a tool requires.
RequiredKey(name) == IF name = "search" THEN "query" ELSE "id"

\* C3: a search or fetch call whose arguments are null, empty or lack the
\* tool's required key is rejected with an error that names the key, starts
\* no external operation and returns no content block.
C3_MissingArgumentRejected ==
    (Ended /\ req.name \in {"search", "fetch"} /\ ~Holds(RequiredKey(req.name))) =>
        /\ outcome.kind = "rejected"
        /\ EndsWith(outcome.error, RequiredKey(req.name))
        /\ sent = <<>>
        /\ io = NoIO

C3_Witness ==
    /\ Ended /\ req.name = "search"
    /\ req.args.tag = "dict" /\ DOMAIN req.args.d = {"id"}
    /\ outcome.kind = "rejected"

\* C4, as claimed: search starts the GET only when query is present and a
\* non-empty string.
C4_GetOnlyForNonEmptyQuery ==
    (req.name = "search" /\ sent # <<>>) =>
        /\ Holds("query")
        /\ req.args.d.query.t = "str"
        /\ req.args.d.query.s # ""

\* C4, amended: search starts the GET exactly when the arguments are a
\* mapping that holds the key query, whatever its value (the empty string and
\* a value that is no string included); only null or empty arguments or ones
\* without the key are rejected with no GET and no content block.
C4_GetIffQueryPresent ==
    (req.name = "search" /\ pc \in {"awaiting_get", "idle"} /\ calls > 0) =>
        /\ Holds("query") =>
             /\ Len(sent) = 1
             /\ sent[1] = [op |-> "GET",
                           url |-> "https://export.arxiv.org/api/query?search_query="
                                   \o PyFormat(req.args.d.query) \o "&max_results=10"]
        /\ ~Holds("query") =>
             /\ sent = <<>>
             /\ outcome.kind = "rejected"

C4_Witness ==
    /\ req.name = "search" /\ Holds("query") /\ req.args.d.query = Str("")
    /\ pc = "idle"
    /\ Len(sent) = 1
    /\ sent[1].url = "https://export.arxiv.org/api/query?search_query=&max_results=10"
    /\ outcome.kind = "content"

\* C5: a call of any name other than "search" and "fetch" is rejected with an
\* error whose message carries the name, whatever the arguments; it starts no
\* external operation and returns no content block.
C5_UnknownToolRejected ==
    (calls > 0 /\ req.name \notin {"search", "fetch"}) =>
        /\ sent = <<>>
        /\ io = NoIO
        /\ pc \in {"dispatching", "idle"}
        /\ pc = "idle" =>
             /\ outcome.kind = "rejected"
             /\ EndsWith(outcome.error, req.name)

C5_Witness ==
    /\ Ended /\ req.name = "Search" /\ Holds("query")
    /\ outcome = [kind |-> "rejected", etype |-> "ValueError", error |-> "Unknown tool: Search"]

\* An entry lacks a child, or holds one with no text.
Unreadable(e) == e.id.t # "text" \/ e.title.t # "text" \/ e.summary.t # "text"

\* The GET raised, or gave a body that does not parse, or gave a feed with an
\* entry that cannot be read.
SearchFailed ==
    \/ io.kind = "neterr"
    \/ io.kind = "body" /\ ~io.wellformed
    \/ io.kind = "body" /\ io.wellformed
         /\ \E i \in 1..Len(io.entries) : Unreadable(io.entries[i])

\* C9: a search call whose GET raised, whose response does not parse, or whose
\* feed has an entry without id, title or summary (whatever its other entries)
\* is rejected: no content block, no partial list.
C9_SearchFailureRejects ==
    (Ended /\ req.name = "search" /\ SearchFailed) =>
        /\ outcome.kind = "rejected"
        /\ results = <<>>

C9_Witness ==
    /\ Ended /\ req.name = "search" /\ io.kind = "body" /\ io.wellformed
    /\ Len(io.entries) = 2
    /\ ~Unreadable(io.entries[1])
    /\ io.entries[2].summary = Absent
    /\ outcome.kind = "rejected"

\* The call passed the check of its arguments.
Validated == req.name \in {"search", "fetch"} /\ Holds(RequiredKey(req.name))

\* What C10 says of every state: see below.
C10_Safety ==
    /\ Len(sent) <= 1
    /\ pc = "idle" => returns = calls
    /\ pc # "idle" => returns = calls - 1 /\ outcome = NoOutcome
    /\ pc = "awaiting_get" => Len(sent) = 1
    /\ Ended =>
         /\ outcome.kind \in {"rejected", "content"}
         /\ outcome.kind = "content" => Len(outcome.blocks) = 1
         /\ Validated <=> Len(sent) = 1
         /\ (Validated /\ req.name = "search") => sent[1].op = "GET"
         /\ (Validated /\ req.name = "fetch") => sent[1].op = "process_latex_source"
         /\ (prev.kind = "call" /\ prev.req = req /\ prev.io = io) => prev.outcome = outcome

\* C10: every call that passes validation starts exactly one external
\* operation (a GET for search, a call of process_latex_source for fetch) and
\* never a second one, also when the operation fails; a call that ended has
\* given the host exactly one outcome, one rejection or one content block; and
\* two consecutive calls with the same request and the same answer of the
\* environment have the same outcome; a call that was delivered ends, and the
\* dispatcher is idle again.
C10_OneOperationOneOutcome ==
    /\ []C10_Safety
    /\ [](pc # "idle" => <>(pc = "idle"))

C10_Witness ==
    /\ Ended /\ calls = 2 /\ req.name = "search" /\ io.kind = "neterr"
    /\ prev.kind = "call" /\ prev.req = req /\ prev.io.kind = "body"
    /\ prev.outcome.kind = "content" /\ outcome.kind = "rejected"
    /\ Len(sent) = 1

\* The text of a block cut at its line feeds.
RECURSIVE SplitLines(_)
SplitLines(s) ==
    LET nl == {i \in 1..Len(s) : Char(s, i) = "\n"}
    IN  IF nl = {} THEN <<s>>
        ELSE <<SubSeq(s, 1, Min(nl) - 1)>> \o SplitLines(SubSeq(s, Min(nl) + 1, Len(s)))

BeginsWithID(line) == StartsWith(line, "ID:")

\* The lines of a text that begin with "ID:", in order.
IdLines(s) == SelectSeq(SplitLines(s), BeginsWithID)

HasLineFeed(s) == \E i \in 1..Len(s) : Char(s, i) = "\n"

\* A search call ended with a formatted list of results.
Listed == Ended /\ req.name = "search" /\ outcome.kind = "content" /\ results # <<>>

\* The summary of entry i with its leading and trailing white space removed.
Trimmed(i) == Strip(io.entries[i].summary.s)

\* C6: the summary of a record is the trimmed summary of its entry when that
\* has at most 500 characters, and else its first 500 characters and one more
\* character, the ellipsis; it never has more than 501 characters.
C6_SummaryAtMost501 ==
    Listed =>
        \A i \in 1..Len(results) :
            /\ Len(Trimmed(i)) <= 500 => results[i].text = Trimmed(i)
            /\ Len(Trimmed(i)) > 500 =>
                 /\ SubSeq(results[i].text, 1, 500) = SubSeq(Trimmed(i), 1, 500)
                 /\ Len(results[i].text) = 501
            /\ Len(results[i].text) <= 501

\* C7, as claimed: the formatted text has exactly one line that begins with
\* "ID:" per record, in feed order, whatever the records hold.
C7_OneIdLinePerRecord ==
    Listed =>
        /\ Len(results) = Len(io.entries)
        /\ IdLines(outcome.blocks[1].text)
             = [i \in 1..Len(results) |-> "ID: " \o results[i].id]

\* No field of a record holds a line feed.
SingleLineRecords ==
    \A i \in 1..Len(results) :
        /\ ~HasLineFeed(results[i].id)
        /\ ~HasLineFeed(results[i].title)
        /\ ~HasLineFeed(results[i].text)

\* C7, amended: when no id, title or summary of a record holds a line feed,
\* the formatted text has exactly one line that begins with "ID:" per record,
\* and these lines are in the order of the entries of the feed.
C7_OneIdLinePerSingleLineRecord ==
    (Listed /\ SingleLineRecords) =>
        /\ Len(results) = Len(io.entries)
        /\ IdLines(outcome.blocks[1].text)
             = [i \in 1..Len(results) |-> "ID: " \o results[i].id]

C7_Witness ==
    /\ Listed /\ SingleLineRecords
    /\ Len(io.entries) = 2
    /\ IdLines(outcome.blocks[1].text) = <<"ID: 9901001v1", "ID: 2403.12345v2">>

\* C8: the id of a record is what follows the last "/" of the id of its
\* entry: it holds no "/", it ends the entry's id, what precedes it there is a
\* "/" (or nothing), the version suffix stays; and the url of the record is
\* "https://arxiv.org/abs/" followed by that id.
C8_IdIsLastSegment ==
    Listed =>
        /\ Len(results) = Len(io.entries)
        /\ \A i \in 1..Len(results) :
             LET whole == io.entries[i].id.s
                 id    == results[i].id
             IN  /\ \A k \in 1..Len(id) : Char(id, k) # "/"
                 /\ EndsWith(whole, id)
                 /\ Len(id) = Len(whole) \/ Char(whole, Len(whole) - Len(id)) = "/"
                 /\ whole = "http://arxiv.org/abs/2403.12345v2" => id = "2403.12345v2"
                 /\ results[i].url = "https://arxiv.org/abs/" \o id

C8_Witness ==
    /\ Listed
    /\ Len(results) = 2
    /\ io.entries[1].id.s = "http://arxiv.org/abs/2403.12345v2"
    /\ results[1].id = "2403.12345v2"
    /\ results[1].url = "https://arxiv.org/abs/2403.12345v2"
    /\ results[2].id = "9901001v1"

====
